---- MODULE Spec2Model ----
(***************************************************************************)
(* Model of src/calendar_service.py: the retrying wrappers around the      *)
(* calendar provider's events.insert / events.get / events.update.         *)
(*                                                                         *)
(* One remote event is mutated by the callers; every remote call is one    *)
(* step, so that calls of different callers interleave exactly where the   *)
(* code blocks on the network (or sleeps).  The local computation between  *)
(* two remote calls of one caller is part of the step that precedes it.    *)
(***************************************************************************)
EXTENDS Integers, Sequences, FiniteSets, TLC

VARIABLES
    remote,     \* the event stored by the provider (attendees, etag, summary)
    inserted,   \* number of events the provider created through events.insert
    call,       \* per caller: the frame of the call it is running
    callsLeft,  \* per caller: how many more calls it will start
    initial,    \* the remote event before the first call (never changes)
    retryArgs   \* the retry_count arguments the callers pass (never changes)

vars == <<remote, inserted, call, callsLeft, initial, retryArgs>>

(***************************************************************************)
(* Bounds of the model.                                                    *)
(***************************************************************************)
MaxRetries == 5     \* retry_count arguments range over 0..MaxRetries
MaxCalls   == 2     \* calls made one after the other by the lone caller

\* retry_count: int = 3, the default of the four functions
DefaultRetries == 3

Callers == {"c1", "c2"}

(***************************************************************************)
(* Strings are sequences of one-character strings, so that lower() and     *)
(* strip() are computed and not assumed.                                   *)
(***************************************************************************)
Whitespace == {" "}

LowerChar(ch) ==
    CASE ch = "B" -> "b"
      [] ch = "C" -> "c"
      [] ch = "X" -> "x"
      [] OTHER    -> ch

Lower(s) == [i \in 1..Len(s) |-> LowerChar(s[i])]

RECURSIVE LStrip(_)
LStrip(s) == IF s # <<>> /\ Head(s) \in Whitespace THEN LStrip(Tail(s)) ELSE s

RECURSIVE RStrip(_)
RStrip(s) ==
    IF s # <<>> /\ s[Len(s)] \in Whitespace
    THEN RStrip(SubSeq(s, 1, Len(s) - 1))
    ELSE s

Strip(s) == RStrip(LStrip(s))

\* email inputs
bob     == <<"b", "@", "x">>
BobWs   == <<" ", "B", "@", "x", " ">>
carol   == <<"c", "@", "x">>
NoAt    == <<"b", "x">>
Blank   == <<" ">>
Empty   == <<>>

Emails == {bob, BobWs, carol, NoAt, Blank, Empty}

\* The format check: exactly one "@", with text on both sides, no inner
\* whitespace; surrounding whitespace is tolerated.
IsValidEmailFormat(email) ==
    LET s  == Strip(email)
        at == {i \in 1..Len(s) : s[i] = "@"}
    IN  /\ Cardinality(at) = 1
        /\ \A i \in at : 1 < i /\ i < Len(s)
        /\ \A i \in 1..Len(s) : s[i] \notin Whitespace

\* `not email or len(email.strip()) == 0`
IsEmptyEmail(email) == email = <<>> \/ Len(Strip(email)) = 0

(***************************************************************************)
(* The scan of the attendee list (both loops compare                       *)
(* attendee['email'].lower().strip() with email.lower().strip() and skip   *)
(* attendees without an 'email' key).                                      *)
(***************************************************************************)
\* the comparison without strip()
AttendeeMatchesNoStrip(attendee, email) ==
    /\ "email" \in DOMAIN attendee
    /\ Lower(attendee.email) = Lower(email)

AttendeeMatches(attendee, email) ==
    /\ "email" \in DOMAIN attendee
    /\ Strip(Lower(attendee.email)) = Strip(Lower(email))

\* found_index left at the last index visited when nothing matches
FoundIndexLastVisited(attendees, email) ==
    LET hits == {i \in 1..Len(attendees) : AttendeeMatches(attendees[i], email)}
    IN  IF hits = {} THEN Len(attendees) ELSE CHOOSE i \in hits : \A j \in hits : i <= j

\* index of the first matching attendee, 0 for found_index = None
FoundIndex(attendees, email) ==
    LET hits == {i \in 1..Len(attendees) : AttendeeMatches(attendees[i], email)}
    IN  IF hits = {} THEN 0 ELSE CHOOSE i \in hits : \A j \in hits : i <= j

\* the scan comparing the raw strings
FoundExact(attendees, email) ==
    \E i \in 1..Len(attendees) :
        "email" \in DOMAIN attendees[i] /\ attendees[i].email = email

Found(attendees, email) ==
    \E i \in 1..Len(attendees) : AttendeeMatches(attendees[i], email)

\* attendees.pop(found_index - 1)
PopOffByOne(attendees, i) ==
    SubSeq(attendees, 1, i - 2) \o SubSeq(attendees, i, Len(attendees))

\* attendees.pop(found_index)
Pop(attendees, i) ==
    SubSeq(attendees, 1, i - 1) \o SubSeq(attendees, i + 1, Len(attendees))

\* attendees.insert(0, {'email': email})
AddBodyInFront(event, email) ==
    [event EXCEPT !.attendees = <<[email |-> email]>> \o event.attendees]

\* attendees.append({'email': email}); event['attendees'] = attendees
AddBody(event, email) ==
    [event EXCEPT !.attendees = Append(event.attendees, [email |-> email])]

\* attendees.pop() without the index: the last attendee goes
RemoveBodyPopLast(event, email) ==
    [event EXCEPT !.attendees = SubSeq(event.attendees, 1, Len(event.attendees) - 1)]

\* attendees.pop(found_index); event['attendees'] = attendees
RemoveBody(event, email) ==
    [event EXCEPT !.attendees = Pop(event.attendees, FoundIndex(event.attendees, email))]

\* a merge that leaves the 'etag' key of the event alone
UpdateBodyKeepEtag(event, update_data) ==
    [k \in DOMAIN event \cup DOMAIN update_data |->
        IF k \in DOMAIN update_data /\ k # "etag" THEN update_data[k] ELSE event[k]]

\* for key, value in update_data.items(): event[key] = value
UpdateBody(event, update_data) ==
    [k \in DOMAIN event \cup DOMAIN update_data |->
        IF k \in DOMAIN update_data THEN update_data[k] ELSE event[k]]

\* request.headers["If-Match"] = event['etag'], read from the event after
\* the local change
IfMatchHeader(body) == body.etag

\* a delay that shrinks as retries are consumed
BackoffDelayShrinking(retry_count) == retry_count * 10

\* time.sleep(40 - retry_count * 10)
BackoffDelay(retry_count) == 40 - retry_count * 10

(***************************************************************************)
(* Frames.  A frame holds the arguments and locals of the running call.    *)
(* attempts, fails, contacted, injected, outcome, list0 and prev record    *)
(* what the call did (its remote calls, its last log line or exception);   *)
(* slept is the argument of its last time.sleep in the except branch       *)
(* (NoSleep before the first), made the number of events the provider      *)
(* created for it.  They are read by the properties only.                  *)
(***************************************************************************)
NoEvent   == [attendees |-> <<>>, etag |-> 0, summary |-> "none"]
NoRequest == [body |-> NoEvent, ifMatch |-> 0]
NoUpdate  == [summary |-> "none"]
NoSleep   == -1
NoPrev    == [isAdd |-> FALSE, email |-> Empty, list0 |-> <<>>]

Idle == [pc |-> "idle", op |-> "none", email |-> Empty, update_data |-> NoUpdate,
         retries |-> 0, retry_count |-> 0, fetched |-> NoEvent,
         request |-> NoRequest, attempts |-> 0, fails |-> 0,
         contacted |-> FALSE, injected |-> FALSE, outcome |-> "none",
         result |-> 0, list0 |-> <<>>, prev |-> NoPrev,
         slept |-> NoSleep, made |-> 0]

\* what the next call remembers of the call before it: an addAttendee that ran
\* without any failure, with its email and the attendee list it started from
Summary(r) ==
    IF r.op = "add" /\ r.fails = 0 /\ r.outcome \in {"added", "already"}
    THEN [isAdd |-> TRUE, email |-> r.email, list0 |-> r.list0]
    ELSE NoPrev

NewCall(c, op, email, update_data, n) ==
    [Idle EXCEPT !.op = op, !.email = email, !.update_data = update_data,
                 !.retries = n, !.retry_count = n,
                 !.list0 = IF op = "add" THEN remote.attendees ELSE <<>>,
                 !.prev = Summary(call[c])]

Returned(c) == call[c].pc \in {"idle", "done", "raised"}

\* inputs of update_calendar_invite
UpdateInputs ==
    { [summary |-> "s1"],
      [etag |-> 2],
      [attendees |-> <<[email |-> carol]>>] }

\* attendee lists the remote event may start with
InitLists ==
    { <<>>,
      <<[email |-> bob]>>,
      <<[displayName |-> "dan"], [email |-> carol]>>,
      <<[email |-> BobWs], [email |-> bob]>> }

(***************************************************************************)
(* The except branch shared by the four functions: sleep and recurse with  *)
(* retry_count - 1 while retry_count > 0, else log and return.             *)
(* time.sleep raises ValueError on a negative argument; the handler is     *)
(* outside the try, so the exception leaves the call.                      *)
(***************************************************************************)
Reentry(op) == IF op = "create" THEN "insert" ELSE "service"

\* a handler that repeats request.execute() instead of calling the function again
ExceptRepeatWrite(r) ==
    IF r.retry_count > 0
    THEN IF BackoffDelay(r.retry_count) < 0
         THEN [r EXCEPT !.pc = "raised", !.outcome = "raised_sleep"]
         ELSE IF r.request # NoRequest
              THEN [r EXCEPT !.pc = "write", !.retry_count = @ - 1]
              ELSE [r EXCEPT !.pc = Reentry(r.op), !.retry_count = @ - 1]
    ELSE [r EXCEPT !.pc = "done", !.outcome = "gaveup"]

\* a handler that retries while retry_count >= 0
ExceptOneMore(r) ==
    IF r.retry_count >= 0
    THEN IF BackoffDelay(r.retry_count) < 0
         THEN [r EXCEPT !.pc = "raised", !.outcome = "raised_sleep"]
         ELSE [r EXCEPT !.pc = Reentry(r.op), !.retry_count = @ - 1,
                        !.slept = BackoffDelay(r.retry_count),
                        !.fetched = NoEvent, !.request = NoRequest]
    ELSE [r EXCEPT !.pc = "done", !.outcome = "gaveup"]

\* a handler that calls the function again with retry_count, not retry_count - 1
\* (the counters of the frame restart with it, so that the loop is a cycle)
ExceptNoDecrement(r) ==
    IF r.retry_count > 0
    THEN IF BackoffDelay(r.retry_count) < 0
         THEN [r EXCEPT !.pc = "raised", !.outcome = "raised_sleep"]
         ELSE [r EXCEPT !.pc = Reentry(r.op), !.attempts = 0, !.fails = 0,
                        !.made = 0, !.injected = FALSE,
                        !.slept = BackoffDelay(r.retry_count),
                        !.fetched = NoEvent, !.request = NoRequest]
    ELSE [r EXCEPT !.pc = "done", !.outcome = "gaveup"]

Except(r) ==
    IF r.retry_count > 0
    THEN IF BackoffDelay(r.retry_count) < 0
         THEN [r EXCEPT !.pc = "raised", !.outcome = "raised_sleep"]
         ELSE [r EXCEPT !.pc = Reentry(r.op), !.retry_count = @ - 1,
                        !.slept = BackoffDelay(r.retry_count),
                        !.fetched = NoEvent, !.request = NoRequest]
    ELSE [r EXCEPT !.pc = "done", !.outcome = "gaveup"]

\* a remote call of the try block raised
Failed(r) == Except([r EXCEPT !.contacted = TRUE, !.fails = @ + 1])

\* ... for a reason other than the If-Match precondition
Broken(r) == Failed([r EXCEPT !.injected = TRUE])

\* the provider stores the body it accepts under a fresh etag
Stored(body) == [body EXCEPT !.etag = remote.etag + 1]

Begin(c, frame) ==
    /\ Returned(c)
    /\ callsLeft[c] > 0
    /\ call' = [call EXCEPT ![c] = frame]
    /\ callsLeft' = [callsLeft EXCEPT ![c] = @ - 1]
    /\ UNCHANGED <<remote, inserted, initial, retryArgs>>

(***************************************************************************)
(* create_calendar_event_with_retry                                        *)
(***************************************************************************)
StartCreate(c) ==
    \E n \in retryArgs :
        Begin(c, [NewCall(c, "create", Empty, NoUpdate, n) EXCEPT !.pc = "insert"])

Insert(c) ==
    LET r == [call[c] EXCEPT !.attempts = @ + 1] IN
    /\ call[c].pc = "insert"
    /\ \/ /\ inserted' = inserted + 1          \* event created, id returned
          /\ call' = [call EXCEPT ![c] =
                 [r EXCEPT !.pc = "done", !.outcome = "created",
                           !.contacted = TRUE, !.result = inserted + 1,
                           !.made = @ + 1]]
       \/ /\ inserted' = inserted              \* the request fails
          /\ call' = [call EXCEPT ![c] = Broken(r)]
       \/ /\ inserted' = inserted + 1          \* created, but the reply is lost
          /\ call' = [call EXCEPT ![c] = Broken([r EXCEPT !.made = @ + 1])]
    /\ UNCHANGED <<remote, callsLeft, initial, retryArgs>>

(***************************************************************************)
(* add_user_to_calendar_invite, remove_user_from_calendar_invite,          *)
(* update_calendar_invite: entry                                           *)
(***************************************************************************)
AddEntry(r) ==
    IF IsEmptyEmail(r.email)
    THEN [r EXCEPT !.pc = "done", !.outcome = "empty"]
    ELSE IF ~IsValidEmailFormat(r.email)
         THEN [r EXCEPT !.pc = "done", !.outcome = "invalid"]
         ELSE [r EXCEPT !.pc = "service"]

RemoveEntry(r) ==
    IF IsEmptyEmail(r.email)
    THEN [r EXCEPT !.pc = "done", !.outcome = "empty"]
    ELSE [r EXCEPT !.pc = "service"]

StartAdd(c) ==
    \E email \in Emails, n \in retryArgs :
        Begin(c, AddEntry(NewCall(c, "add", email, NoUpdate, n)))

StartRemove(c) ==
    \E email \in Emails, n \in retryArgs :
        Begin(c, RemoveEntry(NewCall(c, "remove", email, NoUpdate, n)))

StartUpdate(c) ==
    \E update_data \in UpdateInputs, n \in retryArgs :
        Begin(c, [NewCall(c, "update", Empty, update_data, n) EXCEPT !.pc = "service"])

\* service = get_google_calendar_service(), before the try: it returns the
\* client or raises (credentials unreadable, refresh refused, build failed)
GetService(c) ==
    /\ call[c].pc = "service"
    /\ \/ call' = [call EXCEPT ![c] = [@ EXCEPT !.pc = "fetch", !.attempts = @ + 1]]
       \/ call' = [call EXCEPT ![c] = [@ EXCEPT !.pc = "raised", !.outcome = "raised_service"]]
    /\ UNCHANGED <<remote, inserted, callsLeft, initial, retryArgs>>

\* the request built from the changed event
Request(body) == [body |-> body, ifMatch |-> IfMatchHeader(body)]

\* what the try block does with the fetched event, up to request.execute()
AfterFetch(r, event) ==
    LET f == [r EXCEPT !.fetched = event, !.contacted = TRUE] IN
    CASE r.op = "add" ->
            IF Found(event.attendees, r.email)
            THEN [f EXCEPT !.pc = "done", !.outcome = "already"]
            ELSE [f EXCEPT !.pc = "write", !.request = Request(AddBody(event, r.email))]
      [] r.op = "remove" ->
            IF FoundIndex(event.attendees, r.email) # 0
            THEN [f EXCEPT !.pc = "write", !.request = Request(RemoveBody(event, r.email))]
            ELSE [f EXCEPT !.pc = "done", !.outcome = "absent"]
      [] OTHER ->
            [f EXCEPT !.pc = "write", !.request = Request(UpdateBody(event, r.update_data))]

\* service.events().get(...).execute() and the local work that follows
Fetch(c) ==
    /\ call[c].pc = "fetch"
    /\ \/ call' = [call EXCEPT ![c] = AfterFetch(@, remote)]
       \/ call' = [call EXCEPT ![c] = Broken(@)]
    /\ UNCHANGED <<remote, inserted, callsLeft, initial, retryArgs>>

Success(op) ==
    CASE op = "add" -> "added" [] op = "remove" -> "removed" [] OTHER -> "updated"

\* request.execute() of the conditional update
Write(c) ==
    LET r == call[c]
        fresh == r.request.ifMatch = remote.etag
    IN
    /\ call[c].pc = "write"
    /\ \/ /\ fresh                              \* accepted
          /\ remote' = Stored(r.request.body)
          /\ call' = [call EXCEPT ![c] =
                 [r EXCEPT !.pc = "done", !.outcome = Success(r.op)]]
       \/ /\ ~fresh                             \* precondition failed
          /\ remote' = remote
          /\ call' = [call EXCEPT ![c] = Failed(r)]
       \/ /\ remote' = remote                   \* the request fails
          /\ call' = [call EXCEPT ![c] = Broken(r)]
       \/ /\ fresh                              \* accepted, but the reply is lost
          /\ remote' = Stored(r.request.body)
          /\ call' = [call EXCEPT ![c] = Broken(r)]
    /\ UNCHANGED <<inserted, callsLeft, initial, retryArgs>>

(***************************************************************************)
(* Specifications.  Spec: the single-threaded program, one caller making   *)
(* its calls one after the other.  SpecConc: two callers, one call each,   *)
(* racing on the same event.                                               *)
(***************************************************************************)
InitCommon ==
    /\ remote \in {[attendees |-> l, etag |-> 1, summary |-> "s0"] : l \in InitLists}
    /\ initial = remote
    /\ inserted = 0
    /\ call = [c \in Callers |-> Idle]

Init ==
    /\ InitCommon
    /\ callsLeft = [c \in Callers |-> IF c = "c1" THEN MaxCalls ELSE 0]
    /\ retryArgs = 0..MaxRetries

InitConc ==
    /\ InitCommon
    /\ callsLeft = [c \in Callers |-> 1]
    /\ retryArgs = {DefaultRetries}

Next ==
    \/ \E c \in Callers : StartCreate(c)
    \/ \E c \in Callers : StartAdd(c)
    \/ \E c \in Callers : StartRemove(c)
    \/ \E c \in Callers : StartUpdate(c)
    \/ \E c \in Callers : Insert(c)
    \/ \E c \in Callers : GetService(c)
    \/ \E c \in Callers : Fetch(c)
    \/ \E c \in Callers : Write(c)

Spec == Init /\ [][Next]_vars

SpecConc == InitConc /\ [][Next]_vars

\* The functions are synchronous: a call that has started goes on to its next
\* remote call, which answers or fails, until the function returns or raises.
Run(c) == Insert(c) \/ GetService(c) \/ Fetch(c) \/ Write(c)

\* one call of one caller, with every retry_count
InitLive ==
    /\ InitCommon
    /\ callsLeft = [c \in Callers |-> IF c = "c1" THEN 1 ELSE 0]
    /\ retryArgs = 0..MaxRetries

SpecLive == InitLive /\ [][Next]_vars /\ \A c \in Callers : WF_vars(Run(c))

(***************************************************************************)
(* Properties.                                                             *)
(***************************************************************************)
\* equality of two emails after lower-casing and trimming both sides
SameEmail(a, b) == Strip(Lower(a)) = Strip(Lower(b))

HasEmail(attendees, email) ==
    \E i \in 1..Len(attendees) :
        "email" \in DOMAIN attendees[i] /\ SameEmail(attendees[i].email, email)

\* no two attendees with the same email after lower-casing and trimming
Unique(attendees) ==
    \A i, j \in 1..Len(attendees) :
        (i < j /\ "email" \in DOMAIN attendees[i] /\ "email" \in DOMAIN attendees[j])
            => ~SameEmail(attendees[i].email, attendees[j].email)

BadEmail(email) == IsEmptyEmail(email) \/ ~IsValidEmailFormat(email)

Ended(c) == call[c].pc \in {"done", "raised"}

\* the step is caller c's successful events.get
Fetched(c) == call[c].pc = "fetch" /\ call'[c].fetched # NoEvent

\* the step is caller c's events.update, and the provider stored it
Wrote(c) == call[c].pc = "write" /\ call'[c] # call[c] /\ remote' # remote

\* C1: every write of addAttendee, removeAttendee and updateFields carries as
\* If-Match the etag returned by the fetch of the same attempt, for every
\* fieldChanges map.
WriteCarriesFetchedEtag ==
    \A c \in Callers :
        call[c].pc = "write" => call[c].request.ifMatch = call[c].fetched.etag

\* C2: an addAttendee whose fetched event already holds the email (compared
\* lower-cased and trimmed) returns from that attempt without a write call and
\* leaves the remote event as it is.
AddPresentIsNoOp ==
    [][\A c \in Callers :
        (Fetched(c) /\ call[c].op = "add" /\ HasEmail(remote.attendees, call[c].email))
            => /\ call'[c].pc = "done"
               /\ call'[c].outcome = "already"
               /\ remote' = remote]_vars

AddPresentSkipped ==
    \E c \in Callers :
        /\ call[c].op = "add" /\ call[c].outcome = "already"
        /\ call[c].email = BobWs
        /\ call[c].fetched.attendees = <<[email |-> bob]>>
        /\ remote = call[c].fetched

\* C3: a removeAttendee whose fetched event holds no attendee with the email
\* returns from that attempt without a write call and leaves the remote event
\* as it is.
RemoveAbsentIsNoOp ==
    [][\A c \in Callers :
        (Fetched(c) /\ call[c].op = "remove" /\ ~HasEmail(remote.attendees, call[c].email))
            => /\ call'[c].pc = "done"
               /\ call'[c].outcome = "absent"
               /\ remote' = remote]_vars

RemoveAbsentSkipped ==
    \E c \in Callers :
        /\ call[c].op = "remove" /\ call[c].outcome = "absent"
        /\ call[c].email = carol
        /\ call[c].fetched.attendees = <<[email |-> BobWs], [email |-> bob]>>
        /\ remote = call[c].fetched

\* C4: for every operation and every retry count N >= 0, a call whose remote
\* call failed on every attempt made exactly N+1 attempts and returned
\* normally (create: None), without raising.
AlwaysFailingGivesUp ==
    \A c \in Callers :
        ( /\ Ended(c)
          /\ call[c].attempts >= 1
          /\ call[c].fails = call[c].attempts
          /\ call[c].outcome # "raised_service" )
        => /\ call[c].attempts = call[c].retries + 1
           /\ call[c].pc = "done"
           /\ call[c].outcome = "gaveup"
           /\ call[c].result = 0

\* C5: for every operation and every k < N, a call whose remote call failed on
\* exactly the first k attempts and then succeeds has succeeded after exactly
\* k+1 attempts.
SucceededOutcomes == {"created", "added", "already", "removed", "absent", "updated"}

FewFailuresThenSuccess ==
    \A c \in Callers :
        ( /\ Ended(c)
          /\ call[c].attempts >= 1
          /\ call[c].fails < call[c].retries
          /\ call[c].outcome # "raised_service" )
        => /\ call[c].outcome \in SucceededOutcomes
           /\ call[c].attempts = call[c].fails + 1

\* C6: addAttendee and removeAttendee with an empty, whitespace-only or
\* malformed email make no remote call (no events.get, no events.update) and
\* do not retry.
BadEmailNoRemoteCall ==
    \A c \in Callers :
        (call[c].op \in {"add", "remove"} /\ BadEmail(call[c].email))
            => /\ ~call[c].contacted
               /\ call[c].retry_count = call[c].retries

\* C7: addAttendee followed by removeAttendee with the same valid email, both
\* without failures and with no other writer, leaves the attendee list equal
\* to the list before the addAttendee, whether or not the email was in it.
AddThenRemoveRestores ==
    \A c \in Callers :
        ( /\ call[c].pc = "done" /\ call[c].op = "remove"
          /\ call[c].fails = 0 /\ call[c].outcome \in {"removed", "absent"}
          /\ call[c].prev.isAdd /\ call[c].prev.email = call[c].email
          /\ \A d \in Callers \ {c} : call[d].op = "none" )
        => remote.attendees = call[c].prev.list0

\* C7, amended: ... for every valid email that matches no attendee of the
\* initial list.
AddThenRemoveRestoresNew ==
    \A c \in Callers :
        ( /\ call[c].pc = "done" /\ call[c].op = "remove"
          /\ call[c].fails = 0 /\ call[c].outcome \in {"removed", "absent"}
          /\ call[c].prev.isAdd /\ call[c].prev.email = call[c].email
          /\ ~HasEmail(call[c].prev.list0, call[c].email)
          /\ \A d \in Callers \ {c} : call[d].op = "none" )
        => remote.attendees = call[c].prev.list0

AddedThenRemoved ==
    \E c \in Callers :
        /\ call[c].pc = "done" /\ call[c].op = "remove"
        /\ call[c].fails = 0 /\ call[c].outcome = "removed"
        /\ call[c].prev.isAdd /\ call[c].prev.email = call[c].email
        /\ call[c].email = carol
        /\ call[c].prev.list0 = <<[email |-> BobWs], [email |-> bob]>>
        /\ call[c].fetched.attendees =
               <<[email |-> BobWs], [email |-> bob], [email |-> carol]>>

\* C8: in addAttendee, removeAttendee and updateFields a failure to obtain the
\* authorized service is retried like any other and never reaches the caller
\* as an exception.
ServiceFailureNotRaised ==
    \A c \in Callers :
        call[c].op \in {"add", "remove", "update"}
            => ~(call[c].pc = "raised" /\ call[c].outcome = "raised_service")

NoDuplicateAttendees ==
    ( /\ Unique(initial.attendees)
      /\ \A c \in Callers : call[c].op \in {"none", "add", "remove"} )
    => Unique(remote.attendees)

LostReplyThenAlready ==
    \E c \in Callers :
        /\ call[c].op = "add" /\ call[c].outcome = "already"
        /\ call[c].injected /\ call[c].fails >= 1
        /\ ~HasEmail(initial.attendees, call[c].email)
        /\ \A d \in Callers \ {c} : call[d].op = "remove"
        /\ Unique(initial.attendees)

\* the step starts no new call of caller c
SameCall(c) == callsLeft'[c] = callsLeft[c]

\* the step is a backoff sleep of caller c followed by the recursive call
Retried(c) == SameCall(c) /\ call'[c].retry_count < call[c].retry_count

\* C11: in every state of a call the attempts made so far are at most the
\* configured maximum + 1, and the remaining-retries counter is one lower in
\* each attempt than in the attempt before it.
AttemptsBounded ==
    \A c \in Callers :
        /\ call[c].attempts <= call[c].retries + 1
        /\ call[c].retry_count >= 0
        /\ call[c].pc \in {"fetch", "write"}
               => call[c].retry_count = call[c].retries - (call[c].attempts - 1)
        /\ call[c].pc \in {"service", "insert"}
               => call[c].retry_count = call[c].retries - call[c].attempts

BudgetExhausted ==
    \E c \in Callers :
        /\ call[c].pc = "done" /\ call[c].outcome = "gaveup"
        /\ call[c].retries = 4 /\ call[c].attempts = 5 /\ call[c].retry_count = 0

\* C12: within one call the delay 40 - retriesLeft*10 slept before a later
\* retry is smaller than the delay slept before the retry preceding it.
DelayShrinks ==
    [][\A c \in Callers :
        (Retried(c) /\ call[c].slept # NoSleep) => call'[c].slept < call[c].slept]_vars

\* C12, amended: within one call the first delay is 40 - N*10 seconds and the
\* delay slept before each later retry is 10 seconds longer than the one before
\* it (10, 20, 30 with the default N = 3).
DelayGrows ==
    [][\A c \in Callers :
        Retried(c) =>
            /\ call[c].slept = NoSleep => call'[c].slept = 40 - call[c].retries * 10
            /\ call[c].slept # NoSleep => call'[c].slept = call[c].slept + 10]_vars

ThirdDelayOfDefault ==
    \E c \in Callers :
        /\ call[c].retries = DefaultRetries
        /\ call[c].retry_count = 0
        /\ call[c].slept = 30

\* C13: the body updateFields writes is the event fetched in the same attempt
\* with every key of fieldChanges overwritten and every other key unchanged,
\* and every attempt whose fetch succeeds goes on to the write.
UpdateWritesMerge ==
    /\ [](\A c \in Callers :
            (call[c].pc = "write" /\ call[c].op = "update") =>
                LET body == call[c].request.body
                    event == call[c].fetched
                    changes == call[c].update_data
                IN  /\ event # NoEvent
                    /\ DOMAIN body = DOMAIN event \cup DOMAIN changes
                    /\ \A k \in DOMAIN changes : body[k] = changes[k]
                    /\ \A k \in DOMAIN event \ DOMAIN changes : body[k] = event[k])
    /\ [][\A c \in Callers :
            (Fetched(c) /\ call[c].op = "update") => call'[c].pc = "write"]_vars

UpdateWithEtagKey ==
    \E c \in Callers :
        /\ call[c].pc = "write" /\ call[c].op = "update"
        /\ call[c].update_data = [etag |-> 2]
        /\ call[c].fetched.etag = 1
        /\ call[c].request.body.etag = 2
        /\ call[c].attempts = 2

\* C14: every call of every public operation ends: whatever the retry count
\* and whichever remote calls fail, the caller gets control back.
CallsTerminate ==
    \A c \in Callers : (call[c].pc \notin {"idle", "done", "raised"}) ~> Ended(c)

ReturnedAfterRetries ==
    \E c \in Callers :
        /\ call[c].pc = "done" /\ call[c].outcome = "updated"
        /\ call[c].attempts = 4 /\ call[c].slept = 30

\* C15: for every retry count N >= 0 the delay passed to time.sleep is
\* non-negative, and the backoff step never raises.
BackoffNeverNegative ==
    \A c \in Callers :
        /\ call[c].slept # NoSleep => call[c].slept >= 0
        /\ call[c].outcome # "raised_sleep"

\* C16: one call of create leaves at most one new event in the calendar,
\* whichever inserts fail, an insert stored by the provider and reported as
\* failed included.
CreateAtMostOneEvent ==
    \A c \in Callers : call[c].op = "create" => call[c].made <= 1

\* the list `after` is the list `before` without its element i
Without(before, i) == SubSeq(before, 1, i - 1) \o SubSeq(before, i + 1, Len(before))

Matching(attendees, email) ==
    {i \in 1..Len(attendees) :
        "email" \in DOMAIN attendees[i] /\ SameEmail(attendees[i].email, email)}

\* caller c has returned from a removeAttendee whose write was stored, and the
\* event is still the one it stored
RemoveStored(c) ==
    /\ call[c].pc = "done" /\ call[c].op = "remove" /\ call[c].outcome = "removed"
    /\ remote.etag = call[c].fetched.etag + 1

\* C17: after a removeAttendee whose write succeeded the remote list holds no
\* attendee with the email (lower-cased, trimmed), for every initial list;
\* exactly one element was removed and the others kept their order.
RemoveLeavesNoMatch ==
    \A c \in Callers :
        RemoveStored(c) =>
            /\ ~HasEmail(remote.attendees, call[c].email)
            /\ \E i \in Matching(call[c].fetched.attendees, call[c].email) :
                   remote.attendees = Without(call[c].fetched.attendees, i)

\* C17, amended: ... for every initial list in which at most one attendee has
\* the email (lower-cased, trimmed).
RemoveLeavesNoMatchUnique ==
    \A c \in Callers :
        ( /\ RemoveStored(c)
          /\ Cardinality(Matching(call[c].fetched.attendees, call[c].email)) <= 1 )
        => /\ ~HasEmail(remote.attendees, call[c].email)
           /\ \E i \in Matching(call[c].fetched.attendees, call[c].email) :
                  remote.attendees = Without(call[c].fetched.attendees, i)

RemovedFirstOfTwo ==
    \E c \in Callers :
        /\ RemoveStored(c)
        /\ call[c].email = BobWs
        /\ call[c].fetched.attendees = <<[email |-> bob], [email |-> carol]>>
        /\ remote.attendees = <<[email |-> carol]>>

\* C18: the body addAttendee writes is the event fetched in the same attempt
\* with the record {email} appended at the end of the attendee list; the other
\* attendees and fields are unchanged, and nothing of an earlier failed attempt
\* is in it (with no other writer the fetched event is the remote event).
AddWritesAppend ==
    \A c \in Callers :
        (call[c].pc = "write" /\ call[c].op = "add") =>
            LET body == call[c].request.body
                event == call[c].fetched
            IN  /\ event # NoEvent
                /\ body.attendees = Append(event.attendees, [email |-> call[c].email])
                /\ DOMAIN body = DOMAIN event
                /\ \A k \in DOMAIN event \ {"attendees"} : body[k] = event[k]
                /\ (\A d \in Callers \ {c} : call[d].op = "none") => event = remote

AddRetriedAfterFailure ==
    \E c \in Callers :
        /\ call[c].pc = "write" /\ call[c].op = "add"
        /\ call[c].attempts = 3 /\ call[c].fails = 2
        /\ call[c].email = bob
        /\ call[c].fetched.attendees = <<[displayName |-> "dan"], [email |-> carol]>>

====
